---- MODULE Spec2Model ----
(***************************************************************************)
(* ATM search tool (src/app.py): postal-code cleaning and diagnosis, the   *)
(* cached coordinate resolver, the loader and the radius search.           *)
(*                                                                         *)
(* Strings are sequences of one-character strings.  An optional value is   *)
(* a sequence of length 0 (None / NaN) or 1 (the value).                   *)
(***************************************************************************)
EXTENDS Integers, Sequences, FiniteSets, TLC

VARIABLES df, invalid_zips_df, zip_coords_cache, data_loaded, calls, last,
          cell, norm_pc, working_zip, cleaned_zip, zip_issue

vars == <<df, invalid_zips_df, zip_coords_cache, data_loaded, calls, last,
          cell, norm_pc, working_zip, cleaned_zip, zip_issue>>

appVars == <<df, invalid_zips_df, zip_coords_cache, data_loaded, calls, last>>
normVars == <<cell, norm_pc, working_zip, cleaned_zip, zip_issue>>

(***************************************************************************)
(* Bounds                                                                  *)
(***************************************************************************)
\* longest raw postal value enumerated exhaustively by SpecNorm
MaxLen == 10

(***************************************************************************)
(* Strings                                                                 *)
(***************************************************************************)
None == <<>>
Some(x) == <<x>>

Digits == {"0", "1", "2", "3", "4", "5", "6", "7", "8", "9"}
Space == {" "}

Str_nan == <<"n", "a", "n">>
Str_none == <<"n", "o", "n", "e">>

\* str.lower() on the letters the model's alphabet holds
LowerChar(c) ==
    CASE c = "N" -> "n"
      [] c = "A" -> "a"
      [] c = "O" -> "o"
      [] c = "E" -> "e"
      [] OTHER -> c

Lower(s) == [i \in 1..Len(s) |-> LowerChar(s[i])]

\* str.isdigit(): non-empty and every character a digit
IsDigitStr(s) == Len(s) > 0 /\ \A i \in 1..Len(s) : s[i] \in Digits

RECURSIVE LStrip(_)
LStrip(s) == IF s # <<>> /\ Head(s) \in Space THEN LStrip(Tail(s)) ELSE s

RECURSIVE RStrip(_)
RStrip(s) ==
    IF s # <<>> /\ s[Len(s)] \in Space THEN RStrip(SubSeq(s, 1, Len(s) - 1)) ELSE s

\* str.strip()
Strip(s) == RStrip(LStrip(s))

HasHyphen(s) == \E i \in 1..Len(s) : s[i] = "-"

\* s.split('-')[0]: the part before the first hyphen
BeforeHyphen(s) ==
    IF HasHyphen(s)
    THEN LET k == CHOOSE i \in 1..Len(s) :
                      s[i] = "-" /\ \A j \in 1..(i - 1) : s[j] # "-"
         IN SubSeq(s, 1, k - 1)
    ELSE s

RECURSIVE ZerosRight(_, _)
ZerosRight(s, w) == IF Len(s) < w THEN ZerosRight(s \o <<"0">>, w) ELSE s

\* str.zfill(w) on a string of digits
RECURSIVE ZFill(_, _)
ZFill(s, w) == IF Len(s) < w THEN ZFill(<<"0">> \o s, w) ELSE s

\* a spreadsheet cell: missing (NaN) or a text value
MissingCell == [missing |-> TRUE, s |-> <<>>]
TextCell(s) == [missing |-> FALSE, s |-> s]

\* Series.astype(str): NaN becomes the text "nan"
AsTypeStr(c) == IF c.missing THEN Str_nan ELSE c.s

\* Series.str.replace(r'[^\d-]', '', regex=True)
IsKept(c) == c \in Digits \cup {"-"}
StripNonDigitHyphen(s) == SelectSeq(s, IsKept)

(***************************************************************************)
(* process_zip_codes.clean_zip                                             *)
(***************************************************************************)
\* line 168 written with the padding on the wrong side
ZFillRightPad(s, w) == ZerosRight(s, w)

\* zip_str.zfill(5), line 168
PadZip(s, w) == ZFill(s, w)

\* lines 166-172 without the branch of lines 169-170
PadOnly(zip_str) ==
    IF IsDigitStr(zip_str) /\ Len(zip_str) <= 5 THEN Some(PadZip(zip_str, 5)) ELSE None

\* lines 166-172, on the string left by lines 156-163
PadOrCut(zip_str) ==
    IF IsDigitStr(zip_str)
    THEN IF Len(zip_str) <= 5 THEN Some(PadZip(zip_str, 5))
         ELSE IF Len(zip_str) = 9 THEN Some(SubSeq(zip_str, 1, 5))
         ELSE None
    ELSE None

\* lines 162-163
HyphenCut(stripped) == IF HasHyphen(stripped) THEN BeforeHyphen(stripped) ELSE stripped

clean_zip(zip_code) ==
    IF Lower(zip_code) \in {Str_nan, Str_none, <<>>}
    THEN None
    ELSE PadOrCut(HyphenCut(Strip(Strip(zip_code))))

\* the working_zip column of one row, lines 146-149
WorkingZip(c) == StripNonDigitHyphen(AsTypeStr(c))

\* valid_mask of one row, lines 178-182
ValidMask(cleaned) ==
    /\ cleaned # None
    /\ Len(cleaned[1]) = 5
    /\ IsDigitStr(cleaned[1])

(***************************************************************************)
(* diagnose_zip_issue                                                      *)
(***************************************************************************)
Issue(text, n) == [text |-> text, n |-> n]

IsDigitChar(c) == c \in Digits

diagnose_zip_issue(original_zip, cleaned) ==
    IF Lower(original_zip) \in {Str_nan, Str_none, <<>>}
    THEN Issue("Missing/Empty zip code", 0)
    ELSE LET original_str == Strip(original_zip)
             digits_only == SelectSeq(original_str, IsDigitChar)
             n == Len(digits_only)
         IN IF original_str = <<>> THEN Issue("Empty zip code", 0)
            ELSE IF n = 0 THEN Issue("No digits in zip code", 0)
            ELSE IF n < 5 THEN Issue("Too few digits", n)
            ELSE IF n > 9 THEN Issue("Too many digits", n)
            ELSE IF n \in {6, 7, 8} THEN Issue("Unusual zip length", n)
            ELSE Issue("Other zip format issue", 0)

\* the argument line 193 hands to diagnose_zip_issue as original_zip
DiagnosedValue(c, working) == working

(***************************************************************************)
(* The cells SpecNorm enumerates: every string over NormAlphabet up to     *)
(* MaxLen characters, and a set of values with other characters.           *)
(***************************************************************************)
NormAlphabet == {"1", "-", "a"}

RECURSIVE StringsUpTo(_)
StringsUpTo(n) ==
    IF n = 0 THEN {<<>>}
    ELSE LET shorter == StringsUpTo(n - 1)
         IN shorter \cup {s \o <<c>> : s \in {t \in shorter : Len(t) = n - 1},
                                       c \in NormAlphabet}

ExtraTexts ==
    { <<"1", "2", "3", "4", "5">>,
      <<"0", "0", "5", "0", "1">>,
      <<"9", "0", "2", "1", "0">>,
      <<"1", "2", "3">>,
      <<"5", "0", "1">>,
      <<"1", "2", "3", "4", "5", "-", "6", "7", "8", "9">>,
      <<"1", "2", "3", "4", "5", "6", "7", "8", "9">>,
      <<"1", "2", "3", "4", "5", ".", "0">>,
      <<" ", "1", "2", "3", "4", "5", " ">>,
      <<"1", "2", " ", "3", "4", "5">>,
      <<"n", "a", "n">>,
      <<"N", "a", "N">>,
      <<"N", "o", "n", "e">>,
      <<"N", "O", "N", "E">>,
      <<" ">>,
      <<"a", "b", "c">>,
      <<"n", "a", "n", "5">> }

NormCells ==
    {MissingCell} \cup {TextCell(s) : s \in StringsUpTo(MaxLen) \cup ExtraTexts}

NormInit ==
    /\ df = None
    /\ invalid_zips_df = None
    /\ zip_coords_cache = <<>>
    /\ data_loaded = FALSE
    /\ calls = <<>>
    /\ last = [op |-> "none"]
    /\ cell \in NormCells
    /\ norm_pc = "raw"
    /\ working_zip = None
    /\ cleaned_zip = None
    /\ zip_issue = None

\* lines 146-175 on one row
NormClean ==
    /\ norm_pc = "raw"
    /\ working_zip' = Some(WorkingZip(cell))
    /\ cleaned_zip' = clean_zip(WorkingZip(cell))
    /\ norm_pc' = IF ValidMask(clean_zip(WorkingZip(cell))) THEN "valid" ELSE "invalid"
    /\ UNCHANGED <<cell, zip_issue>>
    /\ UNCHANGED appVars

\* line 193 on one row of invalid_df
NormDiagnose ==
    /\ norm_pc = "invalid"
    /\ zip_issue' = Some(diagnose_zip_issue(DiagnosedValue(cell, working_zip[1]),
                                            cleaned_zip))
    /\ norm_pc' = "diagnosed"
    /\ UNCHANGED <<cell, working_zip, cleaned_zip>>
    /\ UNCHANGED appVars

NormNext == NormClean \/ NormDiagnose

(***************************************************************************)
(* Data frames: a set of column names and a sequence of rows, each row a   *)
(* function from the column names to the row's values.                     *)
(***************************************************************************)
Frame(cols, rows) == [cols |-> cols, rows |-> rows]

\* pd.DataFrame()
EmptyDataFrame == Frame({}, <<>>)

\* df[name] = value, on one row
SetCol(row, name, v) == (name :> v) @@ row

Msg(level, text) == [level |-> level, text |-> text]

(***************************************************************************)
(* The geocoding service and the places the model knows                    *)
(***************************************************************************)
Z10001 == <<"1", "0", "0", "0", "1">>
Z07960 == <<"0", "7", "9", "6", "0">>

Coords(lat, lon) == [latitude |-> lat, longitude |-> lon]
AbsentCoords == Coords(None, None)

\* what api.zippopotam.us holds, in hundredths of a degree
KnownPlaces == {Z10001, Z07960}
PlaceOf(z) ==
    CASE z = Z10001 -> Coords(Some(4075), Some(-7399))
      [] z = Z07960 -> Coords(Some(4080), Some(-7448))

\* the outcomes of requests.get(url, timeout=5) and of reading its body
Response(kind, coords) == [kind |-> kind, coords |-> coords]
FailureKinds == {"status", "timeout", "malformed"}
Responses(z) ==
    {Response(k, AbsentCoords) : k \in FailureKinds}
        \cup (IF z \in KnownPlaces THEN {Response("ok", PlaceOf(z))} ELSE {})

\* what the service answers for one code; a code already cached is never asked
AnswerFor(resp, z) ==
    IF z \in DOMAIN resp THEN resp[z] ELSE Response("status", AbsentCoords)

(***************************************************************************)
(* get_zip_coordinates                                                     *)
(***************************************************************************)
Resolved(coords, cache, issued, raised) ==
    [coords |-> coords, cache |-> cache, issued |-> issued, raised |-> raised]

\* lines 43-45 without the handler's body: the exception leaves the function
UncaughtFailure(cache, zip_code, resp) ==
    Resolved(AbsentCoords, cache, TRUE, TRUE)

\* lines 43-45: timeout, connection error, unreadable body
OnException(cache, zip_code, resp) ==
    Resolved(AbsentCoords, (zip_code :> AbsentCoords) @@ cache, TRUE, FALSE)

\* lines 39-41 without the store of line 40
ForgottenFailure(cache, zip_code, resp) ==
    Resolved(AbsentCoords, cache, TRUE, FALSE)

\* lines 39-41: any status but 200
OnStatus(cache, zip_code, resp) ==
    Resolved(AbsentCoords, (zip_code :> AbsentCoords) @@ cache, TRUE, FALSE)

get_zip_coordinates(cache, zip_code, resp) ==
    IF zip_code \in DOMAIN cache
    THEN Resolved(cache[zip_code], cache, FALSE, FALSE)
    ELSE IF resp.kind = "timeout" THEN OnException(cache, zip_code, resp)
    ELSE IF resp.kind = "status" THEN OnStatus(cache, zip_code, resp)
    ELSE IF resp.kind = "malformed" THEN OnException(cache, zip_code, resp)
    ELSE Resolved(resp.coords, (zip_code :> resp.coords) @@ cache, TRUE, FALSE)

(***************************************************************************)
(* haversine_distance, in thousandths of a mile, tabulated from the        *)
(* source's formula (r = 3956) at the model's coordinates                  *)
(***************************************************************************)
haversine_distance(lat1, lon1, lat2, lon2) ==
    CASE lat1 = 4075 /\ lon1 = -7399 /\ lat2 = 4075 /\ lon2 = -7399 -> 0
      [] lat1 = 4075 /\ lon1 = -7399 /\ lat2 = 4080 /\ lon2 = -7448 -> 25852
      [] lat1 = 4075 /\ lon1 = -7399 /\ lat2 = 4070 /\ lon2 = -7400 -> 3492
      [] lat1 = 4080 /\ lon1 = -7448 /\ lat2 = 4075 /\ lon2 = -7399 -> 25852
      [] lat1 = 4080 /\ lon1 = -7448 /\ lat2 = 4080 /\ lon2 = -7448 -> 0
      [] lat1 = 4080 /\ lon1 = -7448 /\ lat2 = 4070 /\ lon2 = -7400 -> 26039

(***************************************************************************)
(* The tables a session can upload                                         *)
(***************************************************************************)
\* most rows of an uploaded table
MaxRows == 2

BaseHeader == {"terminal", "location", "address", "city", "st"}

\* columns whose cells the model does not carry: no operation reads them
FreeText == {"location", "address", "city", "st", "state"}

AppCells ==
    { TextCell(Z10001),
      TextCell(<<"7", "9", "6", "0">>),
      TextCell(<<"a", "b", "c">>) }

\* the row with terminal i
BaseRow(i) == [c \in {"terminal"} |-> i]

CellSeqs == UNION {[1..n -> AppCells] : n \in 1..MaxRows}

ZipTable(cells) ==
    Frame(BaseHeader \cup {"zip"},
          [i \in 1..Len(cells) |-> SetCol(BaseRow(i), "zip", cells[i])])

\* a 'zip short' column beside a 'zip' column
ZipShortTable ==
    Frame(BaseHeader \cup {"zip short", "zip"},
          << SetCol(SetCol(BaseRow(1), "zip short", TextCell(<<"7", "9", "6", "0">>)),
                    "zip", TextCell(Z10001)),
             SetCol(SetCol(BaseRow(2), "zip short", MissingCell),
                    "zip", TextCell(Z10001)) >>)

\* a table that brings latitude and longitude columns, one row with both cells
\* filled and one with both empty
OwnCoordsTable ==
    Frame(BaseHeader \cup {"zip", "latitude", "longitude"},
          << SetCol(SetCol(SetCol(BaseRow(1), "zip", TextCell(Z10001)),
                           "latitude", Some(4070)), "longitude", Some(-7400)),
             SetCol(SetCol(SetCol(BaseRow(2), "zip", TextCell(Z10001)),
                           "latitude", None), "longitude", None) >>)

NoCityTable ==
    Frame((BaseHeader \ {"city"}) \cup {"zip"},
          <<SetCol(BaseRow(1), "zip", TextCell(Z10001))>>)

NoZipTable == Frame(BaseHeader, <<BaseRow(1)>>)

Tables ==
    {ZipTable(cells) : cells \in CellSeqs}
        \cup {ZipShortTable, OwnCoordsTable, NoCityTable, NoZipTable}

(***************************************************************************)
(* load_excel_file, lines 69-125: column names                             *)
(***************************************************************************)
\* column_mapping, lines 73-103, on the headers the model's tables carry
RenameColumn(c) ==
    CASE c = "st" -> "state"
      [] c = "zip short" -> "zip_short"
      [] OTHER -> c

RenameFrame(f) ==
    LET cols == {RenameColumn(c) : c \in f.cols}
    IN Frame(cols,
             [i \in 1..Len(f.rows) |->
                 [n \in cols \ FreeText |->
                     f.rows[i][CHOOSE c \in f.cols : RenameColumn(c) = n]]])

required_cols == {"terminal", "location", "address", "city", "state"}

\* lines 117-125
ZipSource(f) ==
    IF "zip_short" \in f.cols THEN Some("zip_short")
    ELSE IF "zip" \in f.cols THEN Some("zip")
    ELSE None

(***************************************************************************)
(* process_zip_codes                                                       *)
(***************************************************************************)
\* lines 118/121 and 146-175: working_zip and cleaned_zip of every row
WithCleanedZip(f, src) ==
    Frame(f.cols \cup {"working_zip", "cleaned_zip"},
          [i \in 1..Len(f.rows) |->
              SetCol(SetCol(f.rows[i], "working_zip", WorkingZip(f.rows[i][src])),
                     "cleaned_zip", clean_zip(WorkingZip(f.rows[i][src])))])

RowIsValid(row) == ValidMask(row["cleaned_zip"])
RowIsInvalid(row) == ~ValidMask(row["cleaned_zip"])

\* line 186 without the negation
InvalidRowsDropped(f) == Frame(f.cols, <<>>)

\* self.df[valid_mask], line 185
ValidRows(f) == Frame(f.cols, SelectSeq(f.rows, RowIsValid))

\* self.df[~valid_mask], line 186
InvalidRows(f) == Frame(f.cols, SelectSeq(f.rows, RowIsInvalid))

\* line 193 / line 336: the zip_issue column
WithZipIssue(f, src) ==
    Frame(f.cols \cup {"zip_issue"},
          [i \in 1..Len(f.rows) |->
              SetCol(f.rows[i], "zip_issue",
                     diagnose_zip_issue(DiagnosedValue(f.rows[i][src],
                                                       f.rows[i]["working_zip"]),
                                        f.rows[i]["cleaned_zip"]))])

\* lines 206-207
WithZip(f) ==
    Frame(f.cols \cup {"zip"},
          [i \in 1..Len(f.rows) |->
              SetCol(f.rows[i], "zip",
                     IF f.rows[i]["cleaned_zip"] = None THEN None
                     ELSE f.rows[i]["cleaned_zip"][1])])

\* lines 146-186 and 206-207: the two frames a table splits into
SplitByZip(f, src) ==
    LET cleaned == WithCleanedZip(f, src)
    IN [valid_df |-> WithZip(ValidRows(cleaned)), invalid_df |-> InvalidRows(cleaned)]

\* what process_zip_codes leaves: self.df, self.invalid_zips_df, and its local invalid_df
process_zip_codes(split, src, old_invalid) ==
    [df |-> split.valid_df,
     invalid_zips_df |-> IF Len(split.invalid_df.rows) > 0 THEN Some(split.invalid_df)
                         ELSE old_invalid,
     invalid_df |-> IF Len(split.invalid_df.rows) > 0
                    THEN WithZipIssue(split.invalid_df, src)
                    ELSE split.invalid_df]

(***************************************************************************)
(* add_coordinates                                                         *)
(***************************************************************************)
\* Series.unique(): the distinct values in order of first appearance
RECURSIVE Unique(_)
Unique(s) ==
    IF s = <<>> THEN <<>>
    ELSE LET init == Unique(SubSeq(s, 1, Len(s) - 1))
             x == s[Len(s)]
         IN IF \E i \in 1..Len(init) : init[i] = x THEN init ELSE Append(init, x)

ZipColumn(f) == [i \in 1..Len(f.rows) |-> f.rows[i]["zip"]]

\* lines 255-259: one turn of the loop, r being what get_zip_coordinates returned
Accumulated(acc, zip_code, r) ==
    [cache |-> r.cache,
     zip_coords |-> (zip_code :> r.coords) @@ acc.zip_coords,
     issued |-> IF r.issued THEN Append(acc.issued, zip_code) ELSE acc.issued,
     raised |-> r.raised]

\* the loop of lines 250-261 over zips[k..], given what the service answers
RECURSIVE ResolveAll(_, _, _, _)
ResolveAll(zips, k, resp, acc) ==
    IF k > Len(zips) \/ acc.raised THEN acc
    ELSE ResolveAll(zips, k + 1, resp,
                    Accumulated(acc, zips[k],
                                get_zip_coordinates(acc.cache, zips[k],
                                                    AnswerFor(resp, zips[k]))))

\* lines 264-265 mapping every code to no coordinates
WithBlankCoordinates(f, zip_coords) ==
    Frame(f.cols \cup {"latitude", "longitude"},
          [i \in 1..Len(f.rows) |->
              SetCol(SetCol(f.rows[i], "latitude", None), "longitude", None)])

\* lines 264-265
WithCoordinates(f, zip_coords) ==
    Frame(f.cols \cup {"latitude", "longitude"},
          [i \in 1..Len(f.rows) |->
              SetCol(SetCol(f.rows[i], "latitude", zip_coords[f.rows[i]["zip"]].latitude),
                     "longitude", zip_coords[f.rows[i]["zip"]].longitude)])

\* lines 263-270, all being what the loop left
Mapped(f, all) ==
    [df |-> IF all.raised THEN f ELSE WithCoordinates(f, all.zip_coords),
     cache |-> all.cache, issued |-> all.issued, raised |-> all.raised]

add_coordinates(f, cache, resp) ==
    Mapped(f, ResolveAll(Unique(ZipColumn(f)), 1, resp,
                         [cache |-> cache, zip_coords |-> <<>>, issued |-> <<>>,
                          raised |-> FALSE]))

\* line 131
NeedsCoordinates(f) == "latitude" \notin f.cols \/ "longitude" \notin f.cols

(***************************************************************************)
(* load_excel_file                                                         *)
(***************************************************************************)
\* lines 69-125 and the split of lines 146-186: what a load makes of a table before
\* it touches the session
Prepare(table) ==
    LET renamed == RenameFrame(table)
        src == ZipSource(renamed)
    IN [renamed |-> renamed,
        src |-> src,
        split |-> IF required_cols \ renamed.cols = {} /\ src # None
                  THEN SplitByZip(Frame(renamed.cols \cup {"working_zip"},
                                        [i \in 1..Len(renamed.rows) |->
                                            SetCol(renamed.rows[i], "working_zip",
                                                   renamed.rows[i][src[1]])]),
                                  src[1])
                  ELSE None]

Prepared == [table \in Tables |-> Prepare(table)]

Loaded(ok, frame, invalid, cache, issued, invalid_df, messages) ==
    [ok |-> ok, df |-> frame, invalid_zips_df |-> invalid, cache |-> cache,
     issued |-> issued, invalid_df |-> invalid_df, messages |-> messages]

\* lines 132-138, a being what add_coordinates left
LoadResolved(p, a) ==
    IF a.raised
    THEN Loaded(FALSE, Some(a.df), p.invalid_zips_df, a.cache, a.issued, p.invalid_df,
                <<Msg("error", "Error loading file")>>)
    ELSE Loaded(TRUE, Some(a.df), p.invalid_zips_df, a.cache, a.issued, p.invalid_df, <<>>)

\* lines 130-134, p being what process_zip_codes left
LoadProcessed(p, cache, resp) ==
    IF NeedsCoordinates(p.df)
    THEN LoadResolved(p, add_coordinates(p.df, cache, resp))
    ELSE Loaded(TRUE, Some(p.df), p.invalid_zips_df, cache, <<>>, p.invalid_df, <<>>)

\* lines 108-134
LoadPrepared(pre, old_invalid, cache, resp) ==
    IF required_cols \ pre.renamed.cols # {}
    THEN Loaded(FALSE, Some(pre.renamed), old_invalid, cache, <<>>, EmptyDataFrame,
                <<Msg("error", "Missing required columns")>>)
    ELSE IF pre.src = None
    THEN Loaded(FALSE, Some(pre.renamed), old_invalid, cache, <<>>, EmptyDataFrame,
                <<Msg("error", "No zip code column found")>>)
    ELSE LoadProcessed(process_zip_codes(pre.split, pre.src[1], old_invalid), cache, resp)

load_excel_file(table, old_invalid, cache, resp) ==
    LoadPrepared(Prepared[table], old_invalid, cache, resp)

ValidCodes(pre) ==
    IF pre.split = None \/ ~NeedsCoordinates(pre.split.valid_df) THEN {}
    ELSE {pre.split.valid_df.rows[i]["zip"] : i \in 1..Len(pre.split.valid_df.rows)}

\* the codes a load of this table asks the service about: the distinct codes of its
\* valid rows that the cache does not hold
CodesToLookUp(table, cache) == ValidCodes(Prepared[table]) \ DOMAIN cache

(***************************************************************************)
(* search_atms_by_radius                                                   *)
(***************************************************************************)
\* float('inf') in the distance_miles column; a finite distance d is <<d>>
Inf == <<>>

\* pd.notna
NotNa(v) == v # None

\* line 297 appending 0 for a row without coordinates
ZeroForMissing(row, search_lat, search_lon) ==
    IF NotNa(row["latitude"]) /\ NotNa(row["longitude"])
    THEN Some(haversine_distance(search_lat, search_lon,
                                 row["latitude"][1], row["longitude"][1]))
    ELSE Some(0)

\* lines 289-297, one row
RowDistance(row, search_lat, search_lon) ==
    IF NotNa(row["latitude"]) /\ NotNa(row["longitude"])
    THEN Some(haversine_distance(search_lat, search_lon,
                                 row["latitude"][1], row["longitude"][1]))
    ELSE Inf

\* line 300
WithDistances(f, search_lat, search_lon) ==
    Frame(f.cols \cup {"distance_miles"},
          [i \in 1..Len(f.rows) |->
              SetCol(f.rows[i], "distance_miles",
                     RowDistance(f.rows[i], search_lat, search_lon))])

\* lines 303-306, radius in miles against distances in thousandths
WithinRadius(f, radius_miles) ==
    LET Keep(row) == /\ row["distance_miles"] # Inf
                     /\ row["distance_miles"][1] <= radius_miles * 1000
    IN Frame(f.cols, SelectSeq(f.rows, Keep))

Injective(p) == \A i, j \in DOMAIN p : i # j => p[i] # p[j]

\* line 309: sort_values('distance_miles') with the default kind, quicksort, which
\* orders by the key and promises nothing about rows with equal keys
SortOrders(f) ==
    {p \in [1..Len(f.rows) -> 1..Len(f.rows)] :
        /\ Injective(p)
        /\ \A i, j \in 1..Len(f.rows) :
              i < j => f.rows[p[i]]["distance_miles"][1] <= f.rows[p[j]]["distance_miles"][1]}

Reordered(f, p) == Frame(f.cols, [i \in 1..Len(f.rows) |-> f.rows[p[i]]])

\* round(2): thousandths to hundredths of a mile, halves to even
Round2(d) ==
    LET q == d \div 10
        rem == d % 10
    IN IF rem < 5 THEN q
       ELSE IF rem > 5 THEN q + 1
       ELSE IF q % 2 = 0 THEN q ELSE q + 1

\* line 312
Rounded(f) ==
    Frame(f.cols,
          [i \in 1..Len(f.rows) |->
              SetCol(f.rows[i], "distance_miles", Some(Round2(f.rows[i]["distance_miles"][1])))])

Searched(found, frame, filtered, cache, issued, messages) ==
    [found |-> found, df |-> frame, filtered |-> filtered, cache |-> cache,
     issued |-> issued, messages |-> messages]

\* lines 285-306, r being the target's coordinates
SearchFrom(frame, radius_miles, r, issued, withd) ==
    Searched(TRUE, Some(withd), WithinRadius(withd, radius_miles), r.cache, issued, <<>>)

\* lines 278-306, r being what get_zip_coordinates returned
SearchResolved(frame, radius_miles, r, issued) ==
    IF r.raised
    THEN Searched(FALSE, frame, EmptyDataFrame, r.cache, issued,
                  <<Msg("error", "Error searching ATMs")>>)
    ELSE IF r.coords.latitude = None
    THEN Searched(FALSE, frame, EmptyDataFrame, r.cache, issued,
                  <<Msg("error", "Could not find coordinates for zip code")>>)
    ELSE SearchFrom(frame, radius_miles, r, issued,
                    WithDistances(frame[1], r.coords.latitude[1], r.coords.longitude[1]))

IssuedBy(r, search_zip) == IF r.issued THEN <<search_zip>> ELSE <<>>

\* lines 274-306: everything before the sort; filtered is returned as it stands when
\* found is FALSE, and sorted and rounded by the caller of this operator otherwise
SearchLookedUp(frame, search_zip, radius_miles, r) ==
    SearchResolved(frame, radius_miles, r, IssuedBy(r, search_zip))

search_atms_by_radius(frame, cache, search_zip, radius_miles, resp) ==
    SearchLookedUp(frame, search_zip, radius_miles,
                   get_zip_coordinates(cache, search_zip, AnswerFor(resp, search_zip)))

(***************************************************************************)
(* The session                                                             *)
(***************************************************************************)
\* most lookups counted for one code
MaxCalls == 3

Targets == {Z10001, <<"1", "2", "3">>}

\* what the operator can type into the text input
TypedTargets == Targets \cup {<<>>}

\* the select box of line 439, as far as the model's distances tell its options apart
RadiusOptions == {5, 50}

SeqToSet(s) == {s[i] : i \in 1..Len(s)}

Counted(old, issued) ==
    [z \in DOMAIN old \cup SeqToSet(issued) |->
        (IF z \in DOMAIN old THEN old[z] ELSE 0) + (IF z \in SeqToSet(issued) THEN 1 ELSE 0)]

CallsLeft(codes) ==
    \A z \in codes : IF z \in DOMAIN calls THEN calls[z] < MaxCalls ELSE TRUE

Kinds(issued, resp) == [z \in SeqToSet(issued) |-> resp[z].kind]

ResponseChoices(codes) ==
    {resp \in [codes -> UNION {Responses(z) : z \in codes}] :
        \A z \in codes : resp[z] \in Responses(z)}

Init ==
    /\ df = None
    /\ invalid_zips_df = None
    /\ zip_coords_cache = <<>>
    /\ data_loaded = FALSE
    /\ calls = <<>>
    /\ last = [op |-> "none"]
    /\ cell = MissingCell
    /\ norm_pc = "idle"
    /\ working_zip = None
    /\ cleaned_zip = None
    /\ zip_issue = None

\* export_invalid_zips, lines 331-342, as far as the sheet's rows
export_invalid_zips(invalid, src) ==
    IF invalid # None THEN Some(WithZipIssue(invalid[1], src)) ELSE None

\* main, lines 366-388: the Load Data button
LoadData(table) ==
    \E resp \in ResponseChoices(CodesToLookUp(table, zip_coords_cache)) :
    \E r \in {load_excel_file(table, invalid_zips_df, zip_coords_cache, resp)} :
        /\ CallsLeft(SeqToSet(r.issued))
        /\ df' = r.df
        /\ invalid_zips_df' = r.invalid_zips_df
        /\ zip_coords_cache' = r.cache
        /\ calls' = Counted(calls, r.issued)
        /\ data_loaded' = r.ok
        /\ last' = [op |-> "load", table |-> table, ok |-> r.ok,
                    invalid_df |-> r.invalid_df,
                    lookups |-> Kinds(r.issued, resp),
                    messages |-> r.messages]
        /\ UNCHANGED normVars

\* lines 308-314 and, for main, lines 455-491: what the caller holds after the search
Outcome(via, search_zip, radius_miles, results, lookups, messages) ==
    [op |-> "search", via |-> via, zip |-> search_zip, radius |-> radius_miles,
     invoked |-> TRUE, results |-> results, lookups |-> lookups,
     messages |-> messages \o
         (IF via = "main"
          THEN IF Len(results.rows) > 0
               THEN <<Msg("success", "Found ATMs")>>
               ELSE <<Msg("warning", "No ATMs found")>>
          ELSE <<>>)]

\* what one search leaves
AfterSearch(via, search_zip, radius_miles, resp) ==
    \E out \in {search_atms_by_radius(df, zip_coords_cache, search_zip, radius_miles, resp)} :
    \E order \in (IF out.found THEN SortOrders(out.filtered) ELSE {<<>>}) :
        /\ CallsLeft(SeqToSet(out.issued))
        /\ last' = Outcome(via, search_zip, radius_miles,
                           IF out.found THEN Rounded(Reordered(out.filtered, order))
                           ELSE out.filtered,
                           Kinds(out.issued, resp), out.messages)
        /\ df' = out.df
        /\ zip_coords_cache' = out.cache
        /\ calls' = Counted(calls, out.issued)
        /\ UNCHANGED <<invalid_zips_df, data_loaded>>
        /\ UNCHANGED normVars

\* line 451 letting every target through
AnyTarget(search_zip) == TRUE

\* the validation of line 451
IsFiveDigits(search_zip) == Len(search_zip) = 5 /\ IsDigitStr(search_zip)

\* main, lines 391-493: the Search button; the page reaches it only with data loaded
\* and, because of the division of line 402, with at least one record
SearchButton(search_zip, radius_miles) ==
    /\ data_loaded
    /\ Len(df[1].rows) > 0
    /\ IF search_zip # <<>> /\ IsFiveDigits(search_zip)
       THEN \E resp \in ResponseChoices({search_zip} \ DOMAIN zip_coords_cache) :
               AfterSearch("main", search_zip, radius_miles, resp)
       ELSE /\ last' = [op |-> "search", via |-> "main", zip |-> search_zip,
                        radius |-> radius_miles, invoked |-> FALSE,
                        results |-> EmptyDataFrame, lookups |-> <<>>,
                        messages |-> IF search_zip # <<>>
                                     THEN <<Msg("error", "Please enter a valid 5-digit zip code")>>
                                     ELSE <<>>]
            /\ UNCHANGED <<df, invalid_zips_df, zip_coords_cache, data_loaded, calls>>
            /\ UNCHANGED normVars

\* search_atms_by_radius called at its own boundary, on a loaded dataset
CallSearch(search_zip, radius_miles) ==
    /\ data_loaded
    /\ \E resp \in ResponseChoices({search_zip} \ DOMAIN zip_coords_cache) :
          AfterSearch("call", search_zip, radius_miles, resp)

Next ==
    \/ \E table \in Tables : LoadData(table)
    \/ \E z \in TypedTargets, radius \in RadiusOptions : SearchButton(z, radius)
    \/ \E z \in Targets, radius \in RadiusOptions : CallSearch(z, radius)

Spec == Init /\ [][Next]_vars

SpecNorm == NormInit /\ [][NormNext]_vars
(***************************************************************************)
(* Properties of the resolver and of the search (Spec)                     *)
(***************************************************************************)
Z123 == <<"1", "2", "3">>

Terminals(rows) == {rows[i]["terminal"] : i \in 1..Len(rows)}

LoadDone == last.op = "load"
SearchDone == last.op = "search" /\ last.invoked

\* C1: the service is asked at most once for any postal code: a code that has been
\* asked about has its answer in the cache, and once a code is in the cache no load
\* and no search asks again or changes the answer it holds, a failed one included.
C1_LookupOncePerCode ==
    /\ [](\A z \in DOMAIN calls : calls[z] <= 1 /\ z \in DOMAIN zip_coords_cache)
    /\ [][\A z \in DOMAIN zip_coords_cache :
             /\ z \in DOMAIN zip_coords_cache'
             /\ zip_coords_cache'[z] = zip_coords_cache[z]
             /\ calls'[z] = calls[z]]_vars

\* a search whose target had failed before: answered from the cache, nothing asked
C1_Witness ==
    /\ SearchDone
    /\ DOMAIN last.lookups = {}
    /\ last.zip \in DOMAIN zip_coords_cache
    /\ zip_coords_cache[last.zip] = AbsentCoords
    /\ calls[last.zip] = 1

\* C2: a lookup that ends in anything but a well-formed success leaves Absent for its
\* code and raises nothing: the load it belongs to succeeds and its records with that
\* code carry no coordinates; the search it belongs to does not end in the handler of
\* line 316.
C2_FailuresAbsorbed ==
    (LoadDone \/ SearchDone) =>
        \A z \in DOMAIN last.lookups :
            last.lookups[z] # "ok" =>
                /\ z \in DOMAIN zip_coords_cache
                /\ zip_coords_cache[z] = AbsentCoords
                /\ IF LoadDone
                   THEN /\ last.ok
                        /\ data_loaded
                        /\ last.messages = <<>>
                        /\ \A i \in 1..Len(df[1].rows) :
                              df[1].rows[i]["zip"] = z =>
                                  /\ df[1].rows[i]["latitude"] = None
                                  /\ df[1].rows[i]["longitude"] = None
                   ELSE \A k \in 1..Len(last.messages) :
                            last.messages[k] # Msg("error", "Error searching ATMs")

\* a load during which a request timed out, and which kept the record
C2_Witness ==
    /\ LoadDone
    /\ last.ok
    /\ \E z \in DOMAIN last.lookups : last.lookups[z] = "timeout"
    /\ \E i \in 1..Len(df[1].rows) : df[1].rows[i]["latitude"] = None

\* the distance of a record with coordinates from the target, by the source's formula
TrueDistance(row, target) ==
    haversine_distance(target.latitude[1], target.longitude[1],
                       row["latitude"][1], row["longitude"][1])

Qualifies(row, target, radius_miles) ==
    /\ row["latitude"] # None
    /\ row["longitude"] # None
    /\ TrueDistance(row, target) <= radius_miles * 1000

\* the record as the result shows it: its distance rounded to two places
Shown(row) == [row EXCEPT !["distance_miles"] = Some(Round2(@[1]))]

\* C3: a search whose target resolves returns exactly the records of the dataset that
\* have both coordinates and lie within the radius, each once, in ascending order of
\* distance, and reports no error; a record without coordinates is never returned.
C3_SearchResult ==
    (SearchDone /\ zip_coords_cache[last.zip].latitude # None) =>
        LET target == zip_coords_cache[last.zip]
            all == df[1].rows
            res == last.results.rows
            hits == {i \in 1..Len(all) : Qualifies(all[i], target, last.radius)}
        IN /\ Len(res) = Cardinality(hits)
           /\ {res[i] : i \in 1..Len(res)} = {Shown(all[i]) : i \in hits}
           /\ \A i, j \in 1..Len(res) :
                 i < j => TrueDistance(res[i], target) <= TrueDistance(res[j], target)
           /\ \A k \in 1..Len(last.messages) : last.messages[k].level # "error"

\* a search with the widest radius that returned one of two records, the other having
\* no coordinates
C3_Witness ==
    /\ SearchDone
    /\ last.radius = 50
    /\ Len(df[1].rows) = 2
    /\ Len(last.results.rows) = 1
    /\ \E i \in 1..2 : df[1].rows[i]["latitude"] = None

\* C4: two records of a result at equal distance from the target stand in the order
\* in which the table held them.
C4_StableOnTies ==
    (SearchDone /\ zip_coords_cache[last.zip].latitude # None) =>
        \A i, j \in 1..Len(last.results.rows) :
            (/\ i < j
             /\ TrueDistance(last.results.rows[i], zip_coords_cache[last.zip])
                    = TrueDistance(last.results.rows[j], zip_coords_cache[last.zip]))
                => last.results.rows[i]["terminal"] < last.results.rows[j]["terminal"]

\* a result whose two records are equally far and stand against the table's order
C4_TiedOutOfOrder ==
    /\ SearchDone
    /\ Len(last.results.rows) = 2
    /\ last.results.rows[1]["distance_miles"] = last.results.rows[2]["distance_miles"]
    /\ last.results.rows[1]["terminal"] = 2

NotFiveDigits(z) == Len(z) # 5 \/ \E i \in 1..Len(z) : z[i] \notin Digits

ReturnedEmpty(f) == Len(f.rows) = 0

\* what a caller sees of a search that found the target and no record: an empty
\* frame, and from main the notice of line 491
LooksLikeNoMatch(l) ==
    /\ ReturnedEmpty(l.results)
    /\ l.via = "main" => \E k \in 1..Len(l.messages) :
                             l.messages[k] = Msg("warning", "No ATMs found")

\* C6: a search whose target resolves to Absent ends in a way the caller can tell
\* from a search that found the target and no record in the radius.
C6_UnresolvableTold ==
    (SearchDone /\ zip_coords_cache[last.zip] = AbsentCoords) => ~LooksLikeNoMatch(last)
\* the button pressed for a target whose lookup failed
C6_Unresolved ==
    /\ SearchDone
    /\ last.via = "main"
    /\ zip_coords_cache[last.zip] = AbsentCoords
    /\ last.results = EmptyDataFrame

(***************************************************************************)
(* Properties of the cleaning and of the diagnosis (SpecNorm), and of the  *)
(* loader (Spec)                                                           *)
(***************************************************************************)
RefIsKept(c) == c \in Digits \cup {"-"}

RECURSIVE RefBeforeHyphen(_)
RefBeforeHyphen(s) ==
    IF s = <<>> \/ Head(s) = "-" THEN <<>>
    ELSE <<Head(s)>> \o RefBeforeHyphen(Tail(s))

RefPad(s) == [i \in 1..5 |-> IF i <= 5 - Len(s) THEN "0" ELSE s[i - (5 - Len(s))]]

\* a missing cell, or the text of one: empty, "nan", "none"
RefMarker(c) == c.missing \/ Lower(Strip(c.s)) \in {<<>>, Str_nan, Str_none}

\* the reference algorithm: Invalid is None
RefNormalize(c) ==
    IF RefMarker(c) THEN None
    ELSE LET rem == RefBeforeHyphen(SelectSeq(c.s, RefIsKept))
         IN IF Len(rem) \in 1..5 THEN Some(RefPad(rem))
            ELSE IF Len(rem) = 9 THEN Some(SubSeq(rem, 1, 5))
            ELSE None

Cleaned == norm_pc \in {"valid", "invalid", "diagnosed"}

\* C7: the cleaned code of every raw value is the one the reference algorithm gives:
\* the digits before the first hyphen, padded on the left to five when there are one
\* to five of them, cut to the first five when there are nine, and none otherwise or
\* for a missing, empty, "nan" or "none" value; the row counts as valid exactly when
\* there is a cleaned code, and a five-digit value is its own cleaned code.
C7_NormalizeAgrees ==
    Cleaned =>
        /\ cleaned_zip = RefNormalize(cell)
        /\ (norm_pc = "valid") <=> (cleaned_zip # None)
        /\ (~cell.missing /\ ~NotFiveDigits(cell.s)) => cleaned_zip = Some(cell.s)

\* a value of one to four digits padded, seen after the cleaning ran
C7_Witness ==
    /\ Cleaned
    /\ cell = TextCell(<<"1", "1", "-", "1">>)
    /\ cleaned_zip = Some(<<"0", "0", "0", "1", "1">>)

\* a raw value that is text, not blank, not a marker of a missing value, and holds
\* no digit
RawWithoutDigits(c) ==
    /\ ~c.missing
    /\ Lower(Strip(c.s)) \notin {<<>>, Str_nan, Str_none}
    /\ \A i \in 1..Len(c.s) : c.s[i] \notin Digits

\* C8: the diagnosis of an invalid record is made from the raw value as the table
\* held it: a raw value without a digit that is no marker of a missing value is
\* diagnosed as having no digits.
C8_DiagnosisFromRaw ==
    (norm_pc = "diagnosed" /\ RawWithoutDigits(cell)) =>
        zip_issue[1].text = "No digits in zip code"

\* the raw value "abc", diagnosed
C8_Diagnosed ==
    /\ norm_pc = "diagnosed"
    /\ cell = TextCell(<<"a", "b", "c">>)
    /\ zip_issue[1].text = "Missing/Empty zip code"

\* the raw postal cell of row i of an uploaded table: 'zip short' before 'zip'
RawPostal(table, i) ==
    IF "zip short" \in table.cols THEN table.rows[i]["zip short"] ELSE table.rows[i]["zip"]

\* C9: while data is loaded every record of the dataset has a postal code of exactly
\* five digits; and a successful load puts each row of the table into exactly one of
\* the dataset and the invalid set, into the dataset exactly when the cleaning gave
\* its raw value a code, which then is the record's postal code.
C9_Partition ==
    /\ data_loaded =>
          \A i \in 1..Len(df[1].rows) : ~NotFiveDigits(df[1].rows[i]["zip"])
    /\ (LoadDone /\ last.ok) =>
          LET valid == df[1].rows
              invalid == last.invalid_df.rows
              n == Len(last.table.rows)
          IN /\ Len(valid) + Len(invalid) = n
             /\ Terminals(valid) \cup Terminals(invalid) = 1..n
             /\ Terminals(valid) \cap Terminals(invalid) = {}
             /\ \A i \in 1..Len(valid) :
                   clean_zip(WorkingZip(RawPostal(last.table, valid[i]["terminal"])))
                       = Some(valid[i]["zip"])
             /\ \A i \in 1..Len(invalid) :
                   clean_zip(WorkingZip(RawPostal(last.table, invalid[i]["terminal"])))
                       = None
             /\ Len(invalid) > 0 =>
                   Terminals(invalid_zips_df[1].rows) = Terminals(invalid)

\* a load that kept the row with "7960" as 07960 and set the row with "abc" aside
C9_Witness ==
    /\ LoadDone
    /\ last.ok
    /\ Len(df[1].rows) = 1
    /\ df[1].rows[1]["zip"] = Z07960
    /\ Len(last.invalid_df.rows) = 1

\* the record carries what the cache holds for its postal code
CarriesResolved(row) ==
    /\ row["zip"] \in DOMAIN zip_coords_cache
    /\ Coords(row["latitude"], row["longitude"]) = zip_coords_cache[row["zip"]]

\* C10 as stated: after a successful load of any table every record of the dataset
\* carries the resolver's answer for its postal code.
C10_EveryLoadResolves ==
    (LoadDone /\ last.ok) =>
        \A i \in 1..Len(df[1].rows) : CarriesResolved(df[1].rows[i])

\* C10: after a successful load of a table that lacks a latitude or a longitude
\* column every record of the dataset carries the resolver's answer for its postal
\* code; a table that has both columns is not resolved and its records keep the
\* cells of the table.
C10_LoadResolvesWithoutOwnColumns ==
    (LoadDone /\ last.ok) =>
        IF {"latitude", "longitude"} \subseteq last.table.cols
        THEN /\ DOMAIN last.lookups = {}
             /\ \A i \in 1..Len(df[1].rows) :
                   /\ df[1].rows[i]["latitude"]
                          = last.table.rows[df[1].rows[i]["terminal"]]["latitude"]
                   /\ df[1].rows[i]["longitude"]
                          = last.table.rows[df[1].rows[i]["terminal"]]["longitude"]
        ELSE \A i \in 1..Len(df[1].rows) : CarriesResolved(df[1].rows[i])

\* a load that resolved one code and failed on the other
C10_Witness ==
    /\ LoadDone
    /\ last.ok
    /\ Len(df[1].rows) = 2
    /\ df[1].rows[1]["latitude"] = Some(4080)
    /\ df[1].rows[2]["latitude"] = None
    /\ "latitude" \notin last.table.cols
(***************************************************************************)
(* Nine-digit values and the invalid set across loads                      *)
(***************************************************************************)
DigitCount(s) == Len(SelectSeq(s, IsDigitChar))

\* C11 as stated: a raw value that holds exactly nine digits is always accepted by
\* the cleaning, so it is valid and never diagnosed.
C11_NineDigitsAccepted ==
    (Cleaned /\ ~cell.missing /\ DigitCount(cell.s) = 9) =>
        /\ norm_pc = "valid"
        /\ cleaned_zip # None

\* C11: a raw value whose digits and hyphens, read up to the first hyphen, are
\* exactly nine digits is accepted with its first five digits as the code and is
\* never diagnosed; a raw value with nine digits in all and a hyphen among the first
\* nine kept characters is judged by the digits before that hyphen alone.
C11_NineBeforeHyphenAccepted ==
    (Cleaned /\ ~cell.missing) =>
        LET rem == RefBeforeHyphen(SelectSeq(cell.s, RefIsKept))
        IN /\ Len(rem) = 9 =>
                 /\ norm_pc = "valid"
                 /\ cleaned_zip = Some(SubSeq(rem, 1, 5))
                 /\ zip_issue = None
           /\ (DigitCount(cell.s) = 9 /\ Len(rem) # 9) =>
                 cleaned_zip = (IF Len(rem) \in 1..5 THEN Some(RefPad(rem)) ELSE None)

\* nine digits followed by a hyphen, cleaned to the first five
C11_Witness ==
    /\ norm_pc = "valid"
    /\ cell = TextCell(<<"1", "1", "1", "1", "1", "1", "1", "1", "1", "-">>)
    /\ cleaned_zip = Some(<<"1", "1", "1", "1", "1">>)

\* the rows the tool holds as invalid; none held is no rows
HeldInvalid == IF invalid_zips_df = None THEN <<>> ELSE invalid_zips_df[1].rows

\* C12: after a successful load the invalid set the tool holds is the set of rows
\* of that table which the cleaning rejected, and is empty when it rejected none,
\* whatever earlier loads left.
C12_InvalidSetOfLastLoad ==
    (LoadDone /\ last.ok) =>
        /\ Len(HeldInvalid) = Len(last.invalid_df.rows)
        /\ \A i \in 1..Len(HeldInvalid) :
              /\ HeldInvalid[i]["terminal"] = last.invalid_df.rows[i]["terminal"]
              /\ HeldInvalid[i]["working_zip"] = last.invalid_df.rows[i]["working_zip"]

\* a successful load of a table without invalid rows, the tool still holding the
\* invalid rows of an earlier table
C12_StaleInvalid ==
    /\ LoadDone
    /\ last.ok
    /\ Len(last.invalid_df.rows) = 0
    /\ Len(HeldInvalid) > 0
====
